---- MODULE Spec2Model ----
(***************************************************************************)
(* Sprague-Grundy sequences and their periodicity detectors.               *)
(*                                                                         *)
(* The pure functions of src/utils.py and src/subtraction-game.py are      *)
(* operators that follow the loops of the code; the two entry points       *)
(* (main of src/main.py, main of src/subtraction-game.py) are a state      *)
(* machine, Spec; direct calls of the library functions on drawn inputs    *)
(* are a second one, SpecCalls.                                            *)
(*                                                                         *)
(* A Python list is a TLA+ sequence: list[i] is At(list, i).  An optional  *)
(* integer is None or Some(k).                                             *)
(***************************************************************************)
EXTENDS Integers, Sequences, FiniteSets, TLC

VARIABLES
    prog,           \* the module whose functions run: "main.py" (with utils.py) or "subtraction-game.py"
    fn,             \* what was called: "main", or the library function of a direct call
    pc,             \* position in main(), or "call" / "returned" for a direct call
    game_name,      \* "Subtraction", "Allbut", "Table" (an arbitrary oracle), "Sequence" (a given list)
    moves,          \* the move set S
    max_n,          \* the argument max_n
    game_function,  \* the oracle, tabulated on 1..max_n
    max_p,          \* the max_p argument of a detector call (None: the default)
    grundy_values,  \* the list the builder returned / the detectors read
    l_pure, p_pure,
    l_arith, p_arith, d_arith,
    log,            \* what main() reported, in order
    outcome         \* "running", "done", "returned" or the exception that ended the run

vars == <<prog, fn, pc, game_name, moves, max_n, game_function, max_p,
          grundy_values, l_pure, p_pure, l_arith, p_arith, d_arith, log, outcome>>

----------------------------------------------------------------------------
\* Bounds of the model

\* move sets are the non-empty subsets of 1..MaxMove
MaxMove == 3
\* main() is run with max_n in -NegN..MaxN
NegN == 2
MaxN == 10
\* direct builder calls take max_n in 0..MaxOracleN
MaxOracleN == 3
\* direct detector calls take lists of length 0..MaxLen over 0..MaxVal
MaxLen == 5
MaxVal == 2
\* and the strictly increasing lists of length 5 over 0..MaxIncVal
MaxIncVal == 5
\* explicit max_p arguments are 0..MaxP
MaxP == 4

----------------------------------------------------------------------------
\* Python values

None == <<>>
Some(k) == <<k>>
Val(o) == o[1]

At(list, i) == list[i + 1]

Min(a, b) == IF a <= b THEN a ELSE b

\* [0] * k
zeros(k) == IF k <= 0 THEN <<>> ELSE [i \in 1..k |-> 0]

\* default of the num_periods parameter
num_periods == 3

----------------------------------------------------------------------------
\* The move oracles (src/main.py)

\* mutant: the guard is x - s > 0, so position 0 is never reached
subtraction_strict_guard(S, x) == {x - s : s \in {t \in S : x - t > 0}}

\* lambda x: set(x - s for s in S if x - s >= 0)
get_subtraction_game_function(S, x) == {x - s : s \in {t \in S : x - t >= 0}}

\* lambda x: set(i for i in range(1, x+1) if i not in S)
get_allbut_game_function(S, x) == {i \in 1..x : i \notin S}

\* an oracle as the builder sees it: its values on range(1, max_n + 1)
tabulate_subtraction(S, n) == [x \in 1..n |-> get_subtraction_game_function(S, x)]
tabulate_allbut(S, n) == [x \in 1..n |-> get_allbut_game_function(S, x)]

----------------------------------------------------------------------------
\* The Grundy sequence builder

\* g = 0; while g in reachable_values: g += 1
RECURSIVE mex_scan(_, _)
mex_scan(reachable_values, g) ==
    IF g \in reachable_values THEN mex_scan(reachable_values, g + 1) ELSE g

\* mutant: the scan starts at 1 (g = 1)
mex_from_one(reachable_values) == mex_scan(reachable_values, 1)

mex(reachable_values) == mex_scan(reachable_values, 0)

\* for n in range(n, max_n + 1): the body reads grundy as it is at that moment,
\* so a position not yet computed reads the 0 it was initialised to
RECURSIVE grundy_loop(_, _, _, _)
grundy_loop(table, grundy, n, n_max) ==
    IF n > n_max THEN grundy
    ELSE LET reachable_values == {At(grundy, next_pos) : next_pos \in table[n]}
             g == mex(reachable_values)
         IN  grundy_loop(table, [grundy EXCEPT ![n + 1] = g], n + 1, n_max)

\* utils.compute_grundy_values(game_function, max_n)
compute_grundy_values(table, n_max) ==
    grundy_loop(table, zeros(n_max + 1), 1, n_max)

\* subtraction-game.compute_grundy_values(moves, max_n):
\* for m in moves: if n >= m: reachable_values.add(grundy[n - m])
RECURSIVE sg_grundy_loop(_, _, _, _)
sg_grundy_loop(S, grundy, n, n_max) ==
    IF n > n_max THEN grundy
    ELSE LET reachable_values == {At(grundy, n - m) : m \in {k \in S : n >= k}}
             g == mex(reachable_values)
         IN  sg_grundy_loop(S, [grundy EXCEPT ![n + 1] = g], n + 1, n_max)

sg_compute_grundy_values(S, n_max) ==
    sg_grundy_loop(S, zeros(n_max + 1), 1, n_max)

----------------------------------------------------------------------------
\* The pure period detector

\* for i in range(i, n - p): if grundy[i] != grundy[i + p]: is_periodic = False
RECURSIVE is_periodic(_, _, _)
is_periodic(grundy, p, i) ==
    IF i >= Len(grundy) - p THEN TRUE
    ELSE IF At(grundy, i) # At(grundy, i + p) THEN FALSE
    ELSE is_periodic(grundy, p, i + 1)

\* for l in range(l, n): for p in range(p, min(max_p + 1, n - l)): ...
RECURSIVE pure_search(_, _, _, _)
pure_search(grundy, bound, l, p) ==
    LET n == Len(grundy)
    IN  IF l >= n THEN <<None, None>>
        ELSE IF p >= Min(bound + 1, n - l) THEN pure_search(grundy, bound, l + 1, 1)
        ELSE IF is_periodic(grundy, p, l) THEN <<Some(l), Some(p)>>
        ELSE pure_search(grundy, bound, l, p + 1)

\* mutant: the outer loop is range(1, n)
detect_pure_period_skips_l0(grundy, bound) ==
    pure_search(grundy, IF bound = None THEN Len(grundy) \div 2 ELSE Val(bound), 1, 1)

\* mutant: the default is n - 1, as the docstring has it
detect_pure_period_default_len(grundy, bound) ==
    pure_search(grundy, IF bound = None THEN Len(grundy) - 1 ELSE Val(bound), 0, 1)

\* utils.detect_pure_period: max_p defaults to n // 2
detect_pure_period(grundy, bound) ==
    pure_search(grundy, IF bound = None THEN Len(grundy) \div 2 ELSE Val(bound), 0, 1)

\* subtraction-game.detect_pure_period: max_p defaults to n - 1
sg_detect_pure_period(grundy, bound) ==
    pure_search(grundy, IF bound = None THEN Len(grundy) - 1 ELSE Val(bound), 0, 1)

----------------------------------------------------------------------------
\* The arithmetic period detector

\* mutant: the saltus is left out of the comparison
RECURSIVE is_arith_periodic_no_saltus(_, _, _, _)
is_arith_periodic_no_saltus(grundy, p, d_candidate, i) ==
    IF i >= Len(grundy) - p THEN TRUE
    ELSE IF At(grundy, i) # At(grundy, i + p) THEN FALSE
    ELSE is_arith_periodic_no_saltus(grundy, p, d_candidate, i + 1)

\* for i in range(i, n - p): if grundy[i] + d_candidate != grundy[i + p]: ...
RECURSIVE is_arith_periodic(_, _, _, _)
is_arith_periodic(grundy, p, d_candidate, i) ==
    IF i >= Len(grundy) - p THEN TRUE
    ELSE IF At(grundy, i) + d_candidate # At(grundy, i + p) THEN FALSE
    ELSE is_arith_periodic(grundy, p, d_candidate, i + 1)

RECURSIVE arith_search(_, _, _, _)
arith_search(grundy, bound, l, p) ==
    LET n == Len(grundy)
    IN  IF l >= n THEN <<None, None, None>>
        ELSE IF p >= Min(bound + 1, n - l) THEN arith_search(grundy, bound, l + 1, 1)
        ELSE LET d_candidate == At(grundy, l + p) - At(grundy, l)
             IN  IF is_arith_periodic(grundy, p, d_candidate, l)
                 THEN <<Some(l), Some(p), Some(d_candidate)>>
                 ELSE arith_search(grundy, bound, l, p + 1)

\* mutant: the first inner loop is range(2, ...)
detect_arithmetic_period_p_from_2(grundy, bound) ==
    arith_search(grundy, IF bound = None THEN Len(grundy) \div 2 ELSE Val(bound), 0, 2)

\* mutant: the inner loop is range(1, min(max_p, n - l))
detect_arithmetic_period_bound_off_by_one(grundy, bound) ==
    arith_search(grundy, (IF bound = None THEN Len(grundy) \div 2 ELSE Val(bound)) - 1, 0, 1)

\* utils.detect_arithmetic_period: max_p defaults to n // 2
detect_arithmetic_period(grundy, bound) ==
    arith_search(grundy, IF bound = None THEN Len(grundy) \div 2 ELSE Val(bound), 0, 1)

\* subtraction-game.detect_arithmetic_period: max_p defaults to n - 1
sg_detect_arithmetic_period(grundy, bound) ==
    arith_search(grundy, IF bound = None THEN Len(grundy) - 1 ELSE Val(bound), 0, 1)

----------------------------------------------------------------------------
\* The reporters

\* the lines print_periodic_segment prints: <<colour index, i, grundy_values[i]>>
segment_lines(grundy, start, period) ==
    LET end == Min(start + num_periods * period + 1, Len(grundy))
    IN  IF end <= start THEN <<>>
        ELSE [k \in 1..(end - start) |->
                 <<((k - 1) % period) % 7, start + k - 1, At(grundy, start + k - 1)>>]

\* utils.print_periodic_segment: returns at once when period is None
print_periodic_segment(grundy, start, period) ==
    IF period = None THEN [raised |-> "", lines |-> <<>>]
    ELSE [raised |-> "", lines |-> segment_lines(grundy, Val(start), Val(period))]

\* subtraction-game.print_periodic_segment: no guard, num_periods * None raises
sg_print_periodic_segment(grundy, start, period) ==
    IF period = None \/ start = None THEN [raised |-> "TypeError", lines |-> <<>>]
    ELSE [raised |-> "", lines |-> segment_lines(grundy, Val(start), Val(period))]

\* utils.plot_grundy_values: the points plotted, grundy[:plot_range]
plot_grundy_values(grundy, l, p) ==
    LET plot_range == Min(Len(grundy), l + p * num_periods + 1)
    IN  SubSeq(grundy, 1, plot_range)

----------------------------------------------------------------------------
\* Inputs

Progs == {"main.py", "subtraction-game.py"}

\* --s / --moves takes one or more integers (nargs="+"); here positive ones
MoveSets == {S \in SUBSET (1..MaxMove) : S # {}}

\* the oracles that return only positions m with 0 <= m < n
ValidOracles(n) ==
    {f \in [1..n -> SUBSET (0..(n - 1))] : \A x \in 1..n : f[x] \subseteq 0..(x - 1)}

Lists == UNION {[1..k -> 0..MaxVal] : k \in 0..MaxLen}

IncreasingLists ==
    {s \in [1..5 -> 0..MaxIncVal] : \A i \in 1..4 : s[i] < s[i + 1]}

MaxPArgs == {None} \cup {Some(k) : k \in 0..MaxP}

\* one line of what main() reports
Entry(op, analysis, l, p, d, lines) ==
    [op |-> op, game |-> game_name, analysis |-> analysis,
     l |-> l, p |-> p, d |-> d, lines |-> lines]

----------------------------------------------------------------------------
\* The entry points: main() of src/main.py and of src/subtraction-game.py

Init ==
    /\ prog \in Progs
    /\ fn = "main"
    /\ pc = "start"
    /\ game_name = "none"
    /\ moves \in MoveSets
    /\ max_n \in (0 - NegN)..MaxN
    /\ game_function = <<>>
    /\ max_p = None
    /\ grundy_values = <<>>
    /\ l_pure = None /\ p_pure = None
    /\ l_arith = None /\ p_arith = None /\ d_arith = None
    /\ log = <<>>
    /\ outcome = "running"

\* main.py 53-56, subtraction-game.py 158-160
BuildSubtraction ==
    /\ fn = "main" /\ pc = "start"
    /\ game_name' = "Subtraction"
    /\ IF prog = "main.py"
       THEN /\ game_function' = tabulate_subtraction(moves, max_n)
            /\ grundy_values' = compute_grundy_values(game_function', max_n)
       ELSE /\ game_function' = game_function
            /\ grundy_values' = sg_compute_grundy_values(moves, max_n)
    /\ pc' = "pure"
    /\ UNCHANGED <<prog, fn, moves, max_n, max_p, l_pure, p_pure,
                   l_arith, p_arith, d_arith, log, outcome>>

\* main.py 76-80
BuildAllbut ==
    /\ fn = "main" /\ pc = "allbut" /\ prog = "main.py"
    /\ game_name' = "Allbut"
    /\ game_function' = tabulate_allbut(moves, max_n)
    /\ grundy_values' = compute_grundy_values(game_function', max_n)
    /\ pc' = "pure"
    /\ UNCHANGED <<prog, fn, moves, max_n, max_p, l_pure, p_pure,
                   l_arith, p_arith, d_arith, log, outcome>>

\* main.py 58-65 and 82-89, subtraction-game.py 163-168
ReportPure ==
    /\ fn = "main" /\ pc = "pure"
    /\ LET r == IF prog = "main.py" THEN detect_pure_period(grundy_values, None)
                ELSE sg_detect_pure_period(grundy_values, None)
           l == r[1]
           p == r[2]
           found == IF prog = "main.py" THEN p # None /\ 2 * Val(p) <= max_n
                    ELSE p # None
           seg == IF prog = "main.py" THEN print_periodic_segment(grundy_values, l, p)
                  ELSE sg_print_periodic_segment(grundy_values, l, p)
       IN  /\ l_pure' = l
           /\ p_pure' = p
           /\ IF ~found
              THEN /\ log' = Append(log, Entry("none", "pure", None, None, None, <<>>))
                   /\ pc' = "arith"
                   /\ outcome' = outcome
              ELSE IF seg.raised # ""
              THEN /\ log' = log \o <<Entry("found", "pure", l, p, None, <<>>),
                                      Entry("print_periodic_segment", "pure", l, p, None, <<>>)>>
                   /\ pc' = "aborted"
                   /\ outcome' = seg.raised
              ELSE /\ log' = log \o
                        <<Entry("found", "pure", l, p, None, <<>>),
                          Entry("print_periodic_segment", "pure", l, p, None, seg.lines)>>
                        \o (IF prog = "main.py"
                            THEN <<Entry("plot_grundy_values", "pure", l, p, None,
                                         plot_grundy_values(grundy_values, Val(l), Val(p)))>>
                            ELSE <<>>)
                   /\ pc' = "arith"
                   /\ outcome' = outcome
    /\ UNCHANGED <<prog, fn, game_name, moves, max_n, game_function, max_p,
                   grundy_values, l_arith, p_arith, d_arith>>

\* main.py 67-74 and 91-98, subtraction-game.py 171-176 (which passes l_pure, p_pure
\* to print_periodic_segment)
ReportArith ==
    /\ fn = "main" /\ pc = "arith"
    /\ LET r == IF prog = "main.py" THEN detect_arithmetic_period(grundy_values, None)
                ELSE sg_detect_arithmetic_period(grundy_values, None)
           l == r[1]
           p == r[2]
           d == r[3]
           found == IF prog = "main.py" THEN p # None /\ 2 * Val(p) <= max_n
                    ELSE p # None
           start == IF prog = "main.py" THEN l ELSE l_pure
           period == IF prog = "main.py" THEN p ELSE p_pure
           seg == IF prog = "main.py"
                  THEN print_periodic_segment(grundy_values, start, period)
                  ELSE sg_print_periodic_segment(grundy_values, start, period)
           next == IF prog = "main.py" /\ game_name = "Subtraction" THEN "allbut" ELSE "done"
       IN  /\ l_arith' = l
           /\ p_arith' = p
           /\ d_arith' = d
           /\ IF ~found
              THEN /\ log' = Append(log, Entry("none", "arith", None, None, None, <<>>))
                   /\ pc' = next
                   /\ outcome' = IF next = "done" THEN "done" ELSE outcome
              ELSE IF seg.raised # ""
              THEN /\ log' = log \o
                        <<Entry("found", "arith", l, p, d, <<>>),
                          Entry("print_periodic_segment", "arith", start, period, None, <<>>)>>
                   /\ pc' = "aborted"
                   /\ outcome' = seg.raised
              ELSE /\ log' = log \o
                        <<Entry("found", "arith", l, p, d, <<>>),
                          Entry("print_periodic_segment", "arith", start, period, None,
                                seg.lines)>>
                        \o (IF prog = "main.py"
                            THEN <<Entry("plot_grundy_values", "arith", l, p, None,
                                         plot_grundy_values(grundy_values, Val(l), Val(p)))>>
                            ELSE <<>>)
                   /\ pc' = next
                   /\ outcome' = IF next = "done" THEN "done" ELSE outcome
    /\ UNCHANGED <<prog, fn, game_name, moves, max_n, game_function, max_p,
                   grundy_values, l_pure, p_pure>>

Next == BuildSubtraction \/ ReportPure \/ ReportArith \/ BuildAllbut

Spec == Init /\ [][Next]_vars

----------------------------------------------------------------------------
\* Direct calls of the library functions

InitCalls ==
    /\ prog \in Progs
    /\ fn = "none"
    /\ pc = "call"
    /\ max_p = None
    /\ l_pure = None /\ p_pure = None
    /\ l_arith = None /\ p_arith = None /\ d_arith = None
    /\ log = <<>>
    /\ outcome = "running"
    /\ \/ /\ game_name = "Sequence"
          /\ grundy_values \in Lists \cup IncreasingLists
          /\ moves = {}
          /\ max_n = Len(grundy_values) - 1
          /\ game_function = <<>>
       \/ /\ game_name = "Table"
          /\ prog = "main.py"
          /\ moves = {}
          /\ max_n \in 0..MaxOracleN
          /\ game_function \in ValidOracles(max_n)
          /\ grundy_values = <<>>
       \/ /\ game_name = "Subtraction"
          /\ moves \in MoveSets
          /\ max_n \in 0..MaxN
          /\ game_function = tabulate_subtraction(moves, max_n)
          /\ grundy_values = <<>>

\* compute_grundy_values(game_function, max_n) / compute_grundy_values(moves, max_n)
CallComputeGrundy ==
    /\ pc = "call" /\ game_name \in {"Table", "Subtraction"}
    /\ grundy_values' = IF prog = "main.py"
                        THEN compute_grundy_values(game_function, max_n)
                        ELSE sg_compute_grundy_values(moves, max_n)
    /\ fn' = "compute_grundy_values"
    /\ pc' = "returned"
    /\ outcome' = "returned"
    /\ UNCHANGED <<prog, game_name, moves, max_n, game_function, max_p,
                   l_pure, p_pure, l_arith, p_arith, d_arith, log>>

\* detect_pure_period(grundy, max_p)
CallDetectPure ==
    /\ pc = "call" /\ game_name = "Sequence"
    /\ \E bound \in MaxPArgs :
          LET r == IF prog = "main.py" THEN detect_pure_period(grundy_values, bound)
                   ELSE sg_detect_pure_period(grundy_values, bound)
          IN  /\ max_p' = bound
              /\ l_pure' = r[1]
              /\ p_pure' = r[2]
    /\ fn' = "detect_pure_period"
    /\ pc' = "returned"
    /\ outcome' = "returned"
    /\ UNCHANGED <<prog, game_name, moves, max_n, game_function, grundy_values,
                   l_arith, p_arith, d_arith, log>>

\* detect_arithmetic_period(grundy, max_p)
CallDetectArith ==
    /\ pc = "call" /\ game_name = "Sequence"
    /\ \E bound \in MaxPArgs :
          LET r == IF prog = "main.py" THEN detect_arithmetic_period(grundy_values, bound)
                   ELSE sg_detect_arithmetic_period(grundy_values, bound)
          IN  /\ max_p' = bound
              /\ l_arith' = r[1]
              /\ p_arith' = r[2]
              /\ d_arith' = r[3]
    /\ fn' = "detect_arithmetic_period"
    /\ pc' = "returned"
    /\ outcome' = "returned"
    /\ UNCHANGED <<prog, game_name, moves, max_n, game_function, grundy_values,
                   l_pure, p_pure, log>>

NextCalls == CallComputeGrundy \/ CallDetectPure \/ CallDetectArith

SpecCalls == InitCalls /\ [][NextCalls]_vars

----------------------------------------------------------------------------
\* Properties.  What the claims speak of, stated without the loops of the code.

\* g is the smallest non-negative integer not in values
IsMex(g, values) ==
    /\ g \in Nat
    /\ g \notin values
    /\ \A k \in 0..(g - 1) : k \in values

\* the positions reachable from n: the subtraction oracle as the interface
\* defines it, any other oracle as tabulated
OracleAt(n) ==
    IF game_name = "Subtraction" THEN {n - s : s \in {t \in moves : n - t >= 0}}
    ELSE game_function[n]

\* every position from 1 on carries the mex of the values the oracle reaches
MexRule(G, n_max) ==
    \A n \in 1..n_max : IsMex(At(G, n), {At(G, m) : m \in OracleAt(n)})

\* the search bound in force: the argument, or the default of the module
BoundInForce ==
    IF max_p # None THEN Val(max_p)
    ELSE IF prog = "main.py" THEN Len(grundy_values) \div 2
    ELSE Len(grundy_values) - 1

InBounds(G, bound, l, p) == l >= 0 /\ p >= 1 /\ p <= Min(bound, Len(G) - l - 1)

PureHolds(G, l, p) == \A i \in l..(Len(G) - p - 1) : At(G, i) = At(G, i + p)

ArithHolds(G, l, p, d) == \A i \in l..(Len(G) - p - 1) : At(G, i) + d = At(G, i + p)

PureCandidates(G, bound) ==
    {c \in (0..Len(G)) \X (1..Len(G)) : InBounds(G, bound, c[1], c[2]) /\ PureHolds(G, c[1], c[2])}

ArithCandidates(G, bound) ==
    {c \in (0..Len(G)) \X (1..Len(G)) :
        /\ InBounds(G, bound, c[1], c[2])
        /\ ArithHolds(G, c[1], c[2], At(G, c[1] + c[2]) - At(G, c[1]))}

LexLeq(a, b) == a[1] < b[1] \/ (a[1] = b[1] /\ a[2] <= b[2])

Returned(f) == pc = "returned" /\ fn = f

\* C1: for a valid oracle and max_n >= 0, compute_grundy_values returns a list
\* of length max_n + 1 with G(0) = 0 and, for every n in 1..max_n, G(n) the
\* smallest non-negative integer that is no G(m) for m in oracle(n).
C1_GrundyIsMex ==
    Returned("compute_grundy_values") =>
        /\ Len(grundy_values) = max_n + 1
        /\ At(grundy_values, 0) = 0
        /\ MexRule(grundy_values, max_n)

\* C1 witness: the builder returned for an arbitrary oracle that is not the
\* full one at some position whose value is at least 2
C1_Witness ==
    /\ Returned("compute_grundy_values")
    /\ game_name = "Table"
    /\ \E n \in 1..max_n :
          At(grundy_values, n) >= 2 /\ game_function[n] # 0..(n - 1)

\* C2: in the all-but game with S = [2,3] and max_n = 6 the oracle returns
\* {1,4,5,6} at n = 6 and the returned sequence obeys the mex rule on the
\* oracle's sets, read with the final values of the sequence.
C2_AllbutMexConsistent ==
    (game_name = "Allbut" /\ moves = {2, 3} /\ max_n = 6) =>
        /\ game_function[6] = {1, 4, 5, 6}
        /\ MexRule(grundy_values, 6)

\* C3: detect_pure_period returns the lexicographically first pair (l, p) with
\* 1 <= p <= min(max_p, len(G) - l - 1) and G(i) = G(i+p) on [l, len(G) - p),
\* and (None, None) exactly when there is no such pair.
C3_PureFirstWitness ==
    Returned("detect_pure_period") =>
        LET C == PureCandidates(grundy_values, BoundInForce)
        IN  IF C = {} THEN l_pure = None /\ p_pure = None
            ELSE /\ l_pure # None /\ p_pure # None
                 /\ <<Val(l_pure), Val(p_pure)>> \in C
                 /\ \A c \in C : LexLeq(<<Val(l_pure), Val(p_pure)>>, c)

\* C3 witness: a pair with a non-empty pre-period and a period above 1, found
\* under an explicit bound
C3_Witness ==
    /\ Returned("detect_pure_period")
    /\ max_p # None
    /\ l_pure # None /\ Val(l_pure) >= 1
    /\ p_pure # None /\ Val(p_pure) >= 2

\* C4: a triple (l, p, d) returned by detect_arithmetic_period has
\* d = G(l+p) - G(l), G(i) + d = G(i+p) on [l, len(G) - p),
\* 1 <= p <= min(max_p, len(G) - l - 1), and no pair before (l, p) in
\* lexicographic order verifies with its own saltus.
C4_ArithFirstWitness ==
    (Returned("detect_arithmetic_period") /\ p_arith # None) =>
        /\ l_arith # None /\ d_arith # None
        /\ InBounds(grundy_values, BoundInForce, Val(l_arith), Val(p_arith))
        /\ Val(d_arith) = At(grundy_values, Val(l_arith) + Val(p_arith))
                            - At(grundy_values, Val(l_arith))
        /\ ArithHolds(grundy_values, Val(l_arith), Val(p_arith), Val(d_arith))
        /\ \A c \in ArithCandidates(grundy_values, BoundInForce) :
              LexLeq(<<Val(l_arith), Val(p_arith)>>, c)

\* C4 witness: a triple with a non-empty pre-period and a non-zero saltus
C4_Witness ==
    /\ Returned("detect_arithmetic_period")
    /\ l_arith # None /\ Val(l_arith) >= 1
    /\ d_arith # None /\ Val(d_arith) # 0

\* the first scenario: the subtraction game with S = [1] and max_n = 10, built
Scenario1 == game_name = "Subtraction" /\ moves = {1} /\ max_n = 10

\* C5 as stated: in the first scenario G = [0,1,0,1,0,1,0,1,0,1,0] and
\* detect_pure_period (default bound) returns (l = 0, p = 1).
C5_AsStated ==
    Scenario1 =>
        /\ grundy_values = <<0, 1, 0, 1, 0, 1, 0, 1, 0, 1, 0>>
        /\ pc # "pure" => (l_pure = Some(0) /\ p_pure = Some(1))

\* C5 amended: in the first scenario G = [0,1,0,1,0,1,0,1,0,1,0] and
\* detect_pure_period (default bound) returns (l = 0, p = 2).
C5_PeriodTwo ==
    Scenario1 =>
        /\ grundy_values = <<0, 1, 0, 1, 0, 1, 0, 1, 0, 1, 0>>
        /\ pc # "pure" => (l_pure = Some(0) /\ p_pure = Some(2))

\* C5 witness: main.py has run the pure detector in the first scenario
C5_Witness == Scenario1 /\ prog = "main.py" /\ pc = "arith"

\* a strictly increasing list of length 5
StrictlyIncreasing5 ==
    /\ game_name = "Sequence"
    /\ Len(grundy_values) = 5
    /\ \A i \in 1..4 : grundy_values[i] < grundy_values[i + 1]

\* C6 as stated: on a strictly increasing list of length 5 both detectors
\* return the absence value.
C6_AsStated ==
    (pc = "returned" /\ StrictlyIncreasing5) =>
        /\ fn = "detect_pure_period" => (l_pure = None /\ p_pure = None)
        /\ fn = "detect_arithmetic_period" =>
              (l_arith = None /\ p_arith = None /\ d_arith = None)

\* C6 amended: on a strictly increasing list of length 5 detect_pure_period
\* returns the absence value, and detect_arithmetic_period returns a triple
\* (l, p, d) with d > 0 whenever its bound is at least 1 (the absence value
\* only for a bound below 1).
C6_PureAbsentArithFound ==
    (pc = "returned" /\ StrictlyIncreasing5) =>
        /\ fn = "detect_pure_period" => (l_pure = None /\ p_pure = None)
        /\ fn = "detect_arithmetic_period" =>
              IF BoundInForce >= 1
              THEN l_arith # None /\ p_arith # None /\ d_arith # None /\ Val(d_arith) > 0
              ELSE l_arith = None /\ p_arith = None /\ d_arith = None

\* C6 witness: the arithmetic detector returned a triple for such a list that
\* is not an arithmetic progression from the start
C6_Witness ==
    /\ pc = "returned" /\ StrictlyIncreasing5
    /\ fn = "detect_arithmetic_period"
    /\ l_arith # None /\ Val(l_arith) >= 1

\* C7: compute_grundy_values with max_n < 0 fails with InvalidArgument and
\* returns no sequence.
C7_NegativeRejected ==
    (max_n < 0 /\ pc # "start") => outcome = "InvalidArgument"

\* a detector of utils.py returned a witness (l, p) under its default bound
UtilsDefaultFound(l, p) ==
    /\ pc = "returned" /\ prog = "main.py" /\ max_p = None
    /\ \/ fn = "detect_pure_period" /\ l_pure = Some(l) /\ p_pure = Some(p)
       \/ fn = "detect_arithmetic_period" /\ l_arith = Some(l) /\ p_arith = Some(p)

C9_OwnWitness ==
    \A k \in DOMAIN log :
        log[k].op = "print_periodic_segment" =>
            /\ log[k].l # None /\ log[k].p # None
            /\ (log[k].analysis = "arith" /\ log[k].game = game_name) =>
                  (log[k].l = l_arith /\ log[k].p = p_arith)

\* C10: on a list of length at least 2 and with a bound of at least 1 (given,
\* or either default) detect_arithmetic_period never returns the absence
\* value: it returns a triple with l <= len(G) - 2.
C10_ArithAlwaysFound ==
    (Returned("detect_arithmetic_period") /\ Len(grundy_values) >= 2 /\ BoundInForce >= 1) =>
        /\ l_arith # None /\ p_arith # None /\ d_arith # None
        /\ Val(l_arith) <= Len(grundy_values) - 2

\* C10 witness: the last candidate, l = len(G) - 2 and p = 1, is the one
\* returned, with a negative saltus
C10_Witness ==
    /\ Returned("detect_arithmetic_period")
    /\ Len(grundy_values) >= 3
    /\ l_arith = Some(Len(grundy_values) - 2) /\ p_arith = Some(1)
    /\ Val(d_arith) < 0

====
